---- MODULE Spec2Model ----
(***************************************************************************)
(* ClioBulk: the browser worker pipeline (App.jsx startProcessing, the     *)
(* processor worker, WebGLEngine), the zustand store and the native        *)
(* 'process-progress' listener, as state machines.                         *)
(*                                                                         *)
(* Numbers.  Colour channels are the 8-bit values of the RGBA/UNSIGNED_BYTE *)
(* textures (0..255).  Normalised texture coordinates are in thousandths   *)
(* (0..1000 for 0.0..1.0).  Opacity, brightness, contrast and saturation   *)
(* are in hundredths (50 for 0.5).  Progress is a fraction <<num, den>>.   *)
(***************************************************************************)
EXTENDS Integers, Sequences, FiniteSets, TLC

\* A JavaScript value that may be null or undefined: None, or Some(v).
None == << >>
Some(v) == << v >>
IsSome(o) == o # << >>
Get(o) == o[1]

(***************************************************************************)
(* Bounds of the model.                                                    *)
(***************************************************************************)
\* Files the user adds to the list.
MaxFiles == 3
\* Invocations of startProcessing.
MaxBatches == 1
\* Environment failures injected in one run (encoder, bitmap allocation).
MaxFaults == 1
\* Messages an external sender posts to the worker (worker-only specification).
MaxPosts == 2
\* 'process-progress' events the backend emits (native specification).
MaxEvents == 2
\* Paths the user picks in the native file dialog (native specification).
MaxPicks == 2

(***************************************************************************)
(* Pixels.                                                                 *)
(***************************************************************************)
\* gl.UNSIGNED_BYTE: the largest channel value of an uploaded texture.
ByteMax == 255

\* The fragments the model follows, by their v_texCoord (thousandths): one far
\* from the default watermark rectangle, one inside it in y only, one inside it.
Coords == {<<100, 100>>, <<500, 900>>, <<875, 875>>}

Min2(a, b) == IF a < b THEN a ELSE b
Max2(a, b) == IF a > b THEN a ELSE b
Clamp(x, lo, hi) == Max2(lo, Min2(hi, x))

\* The picture held by the file with the given id: RGBA per fragment, distinct
\* for distinct ids.
ImageOf(k) ==
  [p \in Coords |-> << (40 * k + p[1] \div 10) % (ByteMax + 1),
                       (200 - 50 * k) % (ByteMax + 1),
                       (p[2] \div 4) % (ByteMax + 1),
                       ByteMax >>]

\* A cleared drawing buffer.
Blank == [p \in Coords |-> <<0, 0, 0, 0>>]

\* GLSL mix(x, y, a) on one channel, a = alpha/255 * opacity/100, rounded to
\* the 8-bit output.
Mix(x, y, alpha, opacity) ==
  (x * (ByteMax * 100 - alpha * opacity) + y * alpha * opacity + (ByteMax * 50))
     \div (ByteMax * 100)

(***************************************************************************)
(* parseCubeLUT (webgl-engine.js).  The text is a sequence of trimmed      *)
(* lines, each already classified the way the parser's tests classify it:  *)
(*   [kind |-> "size", n |-> N]        starts with LUT_3D_SIZE              *)
(*   [kind |-> "row", vals |-> <<..>>] starts with a digit, '.' or '-'      *)
(*   [kind |-> "other"]                anything else (TITLE, comments, "")  *)
(* Row values are the floats of the file times 255.                        *)
(***************************************************************************)
RECURSIVE ParseLines(_, _, _)
ParseLines(lines, size, lut) ==
  IF lines = << >> THEN [size |-> size, data |-> lut]
  ELSE LET line == Head(lines) IN
       IF line.kind = "size" THEN ParseLines(Tail(lines), line.n, lut)
       ELSE IF line.kind = "row" /\ Len(line.vals) = 3
            THEN ParseLines(Tail(lines), size, lut \o line.vals)
            ELSE ParseLines(Tail(lines), size, lut)

parseCubeLUT(data) == ParseLines(data, 0, << >>)

\* A 2x2x2 cube file that inverts every channel (red varies fastest).
InvertCube ==
  << [kind |-> "other"],
     [kind |-> "size", n |-> 2],
     [kind |-> "row", vals |-> <<ByteMax, ByteMax, ByteMax>>],
     [kind |-> "row", vals |-> <<0, ByteMax, ByteMax>>],
     [kind |-> "row", vals |-> <<ByteMax, 0, ByteMax>>],
     [kind |-> "row", vals |-> <<0, 0, ByteMax>>],
     [kind |-> "row", vals |-> <<ByteMax, ByteMax, 0>>],
     [kind |-> "row", vals |-> <<0, ByteMax, 0>>],
     [kind |-> "row", vals |-> <<ByteMax, 0, 0>>],
     [kind |-> "row", vals |-> <<0, 0, 0>>] >>

\* A cube file that declares LUT_3D_SIZE 2 but holds a single row.
TruncatedCube ==
  << [kind |-> "size", n |-> 2],
     [kind |-> "row", vals |-> <<0, 0, 0>>] >>

\* A cube file with rows and no LUT_3D_SIZE line.
NoSizeCube ==
  << [kind |-> "other"],
     [kind |-> "row", vals |-> <<0, 0, 0>>],
     [kind |-> "row", vals |-> <<ByteMax, ByteMax, ByteMax>>] >>

\* The well-formed .cube files a user uploads in the model, and the malformed
\* ones.
CubeFiles == {InvertCube}
MalformedCubeFiles == {TruncatedCube, NoSizeCube}

(***************************************************************************)
(* texture(u_lut, color.rgb): a TEXTURE_3D of size^3 RGB texels uploaded   *)
(* by create3DTexture, LINEAR filtering, CLAMP_TO_EDGE on the three axes.  *)
(***************************************************************************)
\* Texel (i, j, k): i along S (red, fastest in the data), j along T, k along R.
LutTexel(lut, i, j, k) ==
  LET base == 3 * ((k * lut.size + j) * lut.size + i) IN
    IF base + 3 <= Len(lut.data)
    THEN <<lut.data[base + 1], lut.data[base + 2], lut.data[base + 3]>>
    ELSE <<0, 0, 0>>

\* Where coordinate c/255 falls between texel centres: <<i0, i1, f>>, the two
\* texels and the weight of the second in 510ths.
LutAxis(c, n) ==
  LET pos == Clamp(2 * c * n - ByteMax, 0, 2 * ByteMax * (n - 1))
      i0  == pos \div (2 * ByteMax)
  IN << i0, Min2(i0 + 1, n - 1), pos % (2 * ByteMax) >>

Lerp(a, b, f) == (a * (2 * ByteMax - f) + b * f + ByteMax) \div (2 * ByteMax)

Lerp3(u, v, f) == << Lerp(u[1], v[1], f), Lerp(u[2], v[2], f), Lerp(u[3], v[3], f) >>

LutSample(lut, rgb) ==
  LET n  == lut.size
      ax == LutAxis(rgb[1], n)
      ay == LutAxis(rgb[2], n)
      az == LutAxis(rgb[3], n)
      Row(j, k) == Lerp3(LutTexel(lut, ax[1], j, k), LutTexel(lut, ax[2], j, k), ax[3])
      Plane(k)  == Lerp3(Row(ay[1], k), Row(ay[2], k), ay[3])
  IN Lerp3(Plane(az[1]), Plane(az[2]), az[3])

(***************************************************************************)
(* WebGLEngine.getFragmentShaderSource: the two fragment programs, run for *)
(* the fragment at v_texCoord = p.  u holds the program's samplers and     *)
(* uniforms: image, useLut, lut, useWatermark, watermark, rect, opacity.   *)
(* A watermark bitmap is uniform: every texel is watermark.rgba.           *)
(***************************************************************************)
\* wmCoord.x >= 0.0 && wmCoord.x <= 1.0 for wmCoord = (v - origin) / extent,
\* with IEEE division (extent 0 gives an infinity or NaN: both tests fail).
InUnitRangeAlways(v, origin, extent) == TRUE
InUnitRange(v, origin, extent) ==
  \/ extent > 0 /\ v - origin >= 0 /\ v - origin <= extent
  \/ extent < 0 /\ v - origin <= 0 /\ v - origin >= extent

FragmentShaderWebGL2(u, p) ==
  LET color == u.image[p]
      rgb1  == IF u.useLut
               THEN LutSample(u.lut, <<color[1], color[2], color[3]>>)
               ELSE <<color[1], color[2], color[3]>>
      inside == /\ InUnitRange(p[1], u.rect[1], u.rect[3])
                /\ InUnitRange(p[2], u.rect[2], u.rect[4])
      rgb2  == IF u.useWatermark /\ inside
               THEN LET wm == u.watermark.rgba IN
                    << Mix(rgb1[1], wm[1], wm[4], u.opacity),
                       Mix(rgb1[2], wm[2], wm[4], u.opacity),
                       Mix(rgb1[3], wm[3], wm[4], u.opacity) >>
               ELSE rgb1
  IN << rgb2[1], rgb2[2], rgb2[3], color[4] >>

FragmentShaderComposite(u, p) == FragmentShaderWebGL2(u, p)
FragmentShaderWebGL1(u, p) == u.image[p]

FragmentShader(isWebGL2, u, p) ==
  IF isWebGL2 THEN FragmentShaderWebGL2(u, p) ELSE FragmentShaderWebGL1(u, p)

(***************************************************************************)
(* WebGLEngine constructor and createProgram.                              *)
(***************************************************************************)
\* The GLSL ES version a shader source declares: the vertex shader has no
\* #version line (version 100); the WebGL2 fragment shader starts with
\* "#version 300 es", the fallback fragment shader has no #version line.
VertexShaderVersion == "100"
FragmentShaderVersion(isWebGL2) == IF isWebGL2 THEN "300 es" ELSE "100"

\* gl.linkProgram + LINK_STATUS: shaders of different language versions do not
\* link (GLSL ES 3.00 section 3.3); createProgram then logs and returns null.
createProgram(vsVersion, fsVersion) ==
  IF vsVersion = fsVersion THEN Some([fs |-> fsVersion]) ELSE None

\* The contexts canvas.getContext can give: "webgl2" (and "webgl"), only
\* "webgl", or none.
ContextKinds == {"webgl2", "webgl", "none"}

\* new WebGLEngine(canvas): None when the constructor throws
\* 'WebGL not supported'.
NewEngine(ctx) ==
  IF ctx = "none" THEN None
  ELSE LET isWebGL2 == (ctx = "webgl2") IN
       Some([isWebGL2 |-> isWebGL2,
             program  |-> createProgram(VertexShaderVersion,
                                        FragmentShaderVersion(isWebGL2)),
             textures |-> 0])

(***************************************************************************)
(* WebGLEngine.render(image, options).                                     *)
(***************************************************************************)
\* rect || [0.8, 0.8, 0.15, 0.15]
DefaultRect == <<800, 800, 150, 150>>
\* opacity || 0.5: 0, null and undefined are falsy.
OpacityOrDefault(o) == IF IsSome(o) /\ Get(o) # 0 THEN Get(o) ELSE 50

\* The uniforms and textures render binds before drawArrays.
RenderUniforms(engine, image, options) ==
  LET useLut == IsSome(options.lut) /\ engine.isWebGL2
      useWm  == IsSome(options.watermark) /\ IsSome(Get(options.watermark).image)
  IN [ image        |-> image,
       useLut       |-> useLut,
       lut          |-> IF useLut THEN Get(options.lut) ELSE [size |-> 0, data |-> << >>],
       useWatermark |-> useWm,
       watermark    |-> IF useWm THEN Get(Get(options.watermark).image)
                                 ELSE [kind |-> "ImageBitmap", rgba |-> <<0, 0, 0, 0>>],
       rect         |-> IF useWm /\ IsSome(Get(options.watermark).rect)
                        THEN Get(Get(options.watermark).rect) ELSE DefaultRect,
       opacity      |-> IF useWm THEN OpacityOrDefault(Get(options.watermark).opacity)
                                 ELSE 0 ]

\* The image sources gl.texImage2D accepts; with any other value the call
\* throws a TypeError.
TexImageSourceKinds == {"ImageBitmap", "ImageData", "HTMLCanvasElement"}
IsTexImageSource(img) == img.kind \in TexImageSourceKinds

\* render: [threw, canvas, textures, lut3D].  The canvas is resized first; with
\* a null program gl.getAttribLocation(null, ..) throws a TypeError before any
\* texture is created.  Then the textures are created and filled in the order
\* main, LUT, watermark; texImage2D throws for a watermark image that is no
\* image source, after gl.createTexture() made its texture.  drawArrays then
\* runs the fragment program for every fragment and the textures are deleted.
\* textures is the number of textures the call created and did not delete,
\* lut3D tells whether it created a 3D texture.
render(engine, image, options) ==
  LET useLut == IsSome(options.lut) /\ engine.isWebGL2
      useWm  == IsSome(options.watermark) /\ IsSome(Get(options.watermark).image)
      lutTextures == IF useLut THEN 1 ELSE 0
  IN IF ~IsSome(engine.program)
     THEN [threw |-> TRUE, canvas |-> Blank, textures |-> 0, lut3D |-> FALSE]
     ELSE IF useWm /\ ~IsTexImageSource(Get(Get(options.watermark).image))
     THEN [threw |-> TRUE, canvas |-> Blank, textures |-> 1 + lutTextures + 1,
           lut3D |-> useLut]
     ELSE [threw |-> FALSE,
           canvas |-> [p \in Coords |->
                         FragmentShader(engine.isWebGL2,
                                        RenderUniforms(engine, image, options), p)],
           textures |-> 0,
           lut3D |-> useLut]

(***************************************************************************)
(* createTextWatermark(text): white text drawn with globalAlpha 0.5 on a   *)
(* transparent canvas; the bitmap is taken at a glyph texel.               *)
(***************************************************************************)
\* CSS colours a caller passes as options.color.
CssWhite == <<ByteMax, ByteMax, ByteMax>>
CssBlack == <<0, 0, 0>>
\* color = 'white', opacity = 0.5
WatermarkDefaults == [color |-> CssWhite, opacity |-> 50]

\* createTextWatermark(text, options): fillText with fillStyle = color and
\* globalAlpha = opacity; a glyph texel has the colour and alpha = opacity.
createTextWatermarkWith(text, options) ==
  [kind |-> "HTMLCanvasElement",
   rgba |-> <<options.color[1], options.color[2], options.color[3],
              (options.opacity * ByteMax + 50) \div 100>>]
createTextWatermark(text) == createTextWatermarkWith(text, WatermarkDefaults)

\* createImageBitmap(canvas): a bitmap of the canvas's pixels.
createImageBitmapOfCanvas(canvas) == [kind |-> "ImageBitmap", rgba |-> canvas.rgba]

(***************************************************************************)
(* File names are sequences of characters.                                 *)
(***************************************************************************)
UpperChars == <<"A", "B", "C", "D", "E", "F", "G", "H", "I", "J", "K", "L", "M",
                "N", "O", "P", "Q", "R", "S", "T", "U", "V", "W", "X", "Y", "Z">>
LowerChars == <<"a", "b", "c", "d", "e", "f", "g", "h", "i", "j", "k", "l", "m",
                "n", "o", "p", "q", "r", "s", "t", "u", "v", "w", "x", "y", "z">>
toLowerCase(str) ==
  [i \in DOMAIN str |->
     IF \E k \in DOMAIN UpperChars : UpperChars[k] = str[i]
     THEN LowerChars[CHOOSE k \in DOMAIN UpperChars : UpperChars[k] = str[i]]
     ELSE str[i]]
endsWith(str, suffix) ==
  /\ Len(suffix) <= Len(str)
  /\ SubSeq(str, Len(str) - Len(suffix) + 1, Len(str)) = suffix

\* raw-decoder.js isRaw
rawExtensions ==
  { <<".", "a", "r", "w">>, <<".", "c", "r", "2">>, <<".", "n", "e", "f">>,
    <<".", "d", "n", "g">>, <<".", "o", "r", "f">>, <<".", "r", "a", "f">> }
isRaw(name) == \E ext \in rawExtensions : endsWith(toLowerCase(name), ext)

\* The name of the k-th file the user picks.
FileNames ==
  << <<"a", ".", "p", "n", "g">>, <<"b", ".", "C", "R", "2">>,
     <<"c", ".", "j", "p", "g">>, <<"d", ".", "d", "n", "g">> >>
NameOfPick(k) == FileNames[((k - 1) % Len(FileNames)) + 1]

(***************************************************************************)
(* State.                                                                  *)
(***************************************************************************)
VARIABLES
  \* useStore (zustand)
  files,              \* sequence of file items [id, name, file, path, status]
  processing,         \* boolean
  progress,           \* <<num, den>>: the number num/den
  processedFiles,     \* id -> blob, as a function on the ids that have one
  lut,                \* None or Some([size, data])
  watermark,          \* None or Some([image, text, opacity])
  \* App component
  isTauri,            \* window.__TAURI__ !== undefined
  processingOptions,  \* [brightness, contrast, saturation, adaptive_threshold, denoise]
  sp,                 \* the running invocation of startProcessing
  \* processor worker
  engine,             \* None or Some(WebGLEngine)
  offscreenCanvas,    \* None or Some(pixels)
  inbox,              \* messages posted to the worker, not yet handled
  suspended,          \* handlers waiting at await offscreenCanvas.convertToBlob
  outbox,             \* every message the worker posted, in order
  \* environment
  ctx,                \* the context kind canvas.getContext offers
  faults,             \* environment failures so far
  \* bookkeeping of the model
  jobLog,             \* every PROCESS_IMAGE message ever posted, by sequence number
  batches,            \* invocations of startProcessing so far
  nextId,             \* ids handed out by addFiles so far
  posts,              \* messages posted by the external sender (worker-only)
  events,             \* progress events delivered so far (native)
  lastEvent,          \* the payload of the last progress event delivered (native)
  delivered,          \* how many messages of outbox the page has handled
  lastRender,         \* None, or Some(seq) of the job render was last called for,
                      \* while the canvas it drew into is still the worker's canvas
  closed,             \* the jobs (by sequence number) whose imageBitmap was closed
  invoked,            \* None, or Some of the process_bulk call in flight: its files
                      \* (the [inputPath, outputPath] pairs), its options, and the
                      \* download directory the output paths were built on
  call,               \* the last direct call of an engine function: [fn, arg, out]
  inEffect,           \* per invocation of startProcessing, the store's lut, watermark
                      \* and processingOptions at the moment it was invoked
  storeProcessingOptions, \* useStore's processingOptions, which SettingsPanel sets
  drifted             \* the first job (by sequence number) posted while the store's
                      \* settings differed from those its invocation started with

storeVars  == <<files, processing, progress, processedFiles, lut, watermark>>
appVars    == <<isTauri, processingOptions, sp>>
workerVars == <<engine, offscreenCanvas, inbox, suspended, outbox>>
envVars    == <<ctx, faults>>
bookVars   == <<jobLog, batches, nextId, posts, events, lastEvent, delivered, lastRender>>
histVars   == <<inEffect, drifted>>
auxVars    == <<closed, invoked, call, histVars, storeProcessingOptions>>
vars == <<storeVars, appVars, workerVars, envVars, bookVars, auxVars>>

(***************************************************************************)
(* processor worker: self.onmessage (App.jsx, second part of the file).    *)
(***************************************************************************)
\* Blob of a canvas: convertToBlob({type: 'image/jpeg', quality: 0.9}).
Encode(pixels) == [type |-> "image/jpeg", quality |-> 90, of |-> pixels]

\* The bitmap a blob is made of.  convertToBlob copies the canvas bitmap when it
\* is called (HTML: "let bitmap be a copy of this OffscreenCanvas's bitmap") and
\* encodes the copy in parallel; the canvas at the time the promise settles is
\* not read.
BlobSourceAtSettle(atCall, atSettle) == atSettle
BlobSource(atCall, atSettle) == atCall

\* imageBitmap.close(): an ImageBitmap has it and it never throws; any other
\* image source texImage2D accepts (an ImageData) has no close method.
BitmapKinds == {"ImageBitmap", "ImageData"}
CloseThrows(bitmap) == bitmap.kind # "ImageBitmap"

ReadyMsg == [type |-> "READY", seq |-> 0, id |-> None, blob |-> None]
CompleteMsg(seq, id, blob) ==
  [type |-> "PROCESS_COMPLETE", seq |-> seq, id |-> Some(id), blob |-> Some(blob)]
\* { type: 'ERROR', payload: { id: payload?.id, .. } }
ErrorMsg(seq, payload) ==
  [type |-> "ERROR", seq |-> seq,
   id |-> IF IsSome(payload) THEN Some(Get(payload).id) ELSE None,
   blob |-> None]

\* type === 'INIT'
WorkerInit(msg) ==
  /\ msg.type = "INIT"
  /\ offscreenCanvas' = Some(Blank)
  /\ engine' = NewEngine(ctx)
  /\ outbox' = Append(outbox, IF IsSome(NewEngine(ctx)) THEN ReadyMsg
                              ELSE ErrorMsg(msg.seq, msg.payload))
  /\ lastRender' = None
  /\ UNCHANGED suspended

\* type === 'PROCESS_IMAGE', up to the await.
WorkerProcessImage(msg) ==
  /\ msg.type = "PROCESS_IMAGE"
  /\ LET payload == Get(msg.payload)
         eng     == IF IsSome(engine) THEN engine ELSE NewEngine(ctx)
         cnv     == IF IsSome(engine) THEN offscreenCanvas ELSE Some(Blank)
     IN IF ~IsSome(eng)
        THEN \* new WebGLEngine throws: engine stays null
             /\ engine' = None
             /\ offscreenCanvas' = cnv
             /\ outbox' = Append(outbox, ErrorMsg(msg.seq, msg.payload))
             /\ lastRender' = None
             /\ UNCHANGED suspended
        ELSE LET r == render(Get(eng), payload.imageBitmap.pixels, payload.options) IN
             /\ engine' = Some([Get(eng) EXCEPT !.textures = @ + r.textures])
             /\ offscreenCanvas' = Some(r.canvas)
             /\ lastRender' = Some(msg.seq)
             /\ IF r.threw
                THEN /\ outbox' = Append(outbox, ErrorMsg(msg.seq, msg.payload))
                     /\ UNCHANGED suspended
                ELSE /\ suspended' = suspended \cup
                          {[seq |-> msg.seq, payload |-> msg.payload,
                            snapshot |-> r.canvas]}
                     /\ UNCHANGED outbox

\* The worker takes the next message: the handler runs to its first await or
\* to its end.
WorkerOnMessage ==
  /\ inbox # << >>
  /\ inbox' = Tail(inbox)
  /\ \/ WorkerInit(Head(inbox))
     \/ WorkerProcessImage(Head(inbox))
  /\ UNCHANGED <<auxVars, storeVars, appVars, envVars, jobLog, batches, nextId, posts,
                 events, lastEvent, delivered>>

\* convertToBlob resolved: post PROCESS_COMPLETE, then imageBitmap.close(),
\* both inside the try; an exception from close() reaches the catch.
WorkerBlobResolved(h) ==
  LET payload == Get(h.payload)
      blob    == Encode(BlobSource(h.snapshot, Get(offscreenCanvas)))
      done    == Append(outbox, CompleteMsg(h.seq, payload.id, blob))
  IN /\ outbox' = IF CloseThrows(payload.imageBitmap)
                  THEN Append(done, ErrorMsg(h.seq, h.payload))
                  ELSE done
     /\ closed' = IF CloseThrows(payload.imageBitmap) THEN closed
                  ELSE closed \cup {h.seq}
     /\ UNCHANGED faults

\* convertToBlob rejected (the encoder failed): the catch posts ERROR.
WorkerBlobRejected(h) ==
  /\ faults < MaxFaults
  /\ faults' = faults + 1
  /\ outbox' = Append(outbox, ErrorMsg(h.seq, h.payload))
  /\ UNCHANGED closed

\* A suspended handler resumes when its promise settles, in any order.
WorkerResume ==
  \E h \in suspended :
    /\ suspended' = suspended \ {h}
    /\ \/ WorkerBlobResolved(h)
       \/ WorkerBlobRejected(h)
    /\ UNCHANGED <<storeVars, appVars, engine, offscreenCanvas, inbox, ctx, bookVars,
                   invoked, call, histVars, storeProcessingOptions>>

(***************************************************************************)
(* The worker alone, driven by an external sender of messages.             *)
(***************************************************************************)
\* options of a PROCESS_IMAGE payload: nothing requested, or a LUT and a
\* white half-transparent watermark bitmap.
PlainOptions == [lut |-> None, watermark |-> None]
FullOptions ==
  [lut |-> Some(parseCubeLUT(InvertCube)),
   watermark |-> Some([image |-> Some(createImageBitmapOfCanvas(createTextWatermark("abc"))),
                       opacity |-> Some(50), rect |-> None])]
PostedOptions == {PlainOptions, FullOptions}
PostedIds == {1, 2}

DefaultOptions ==
  [brightness |-> 0, contrast |-> 100, saturation |-> 100,
   adaptive_threshold |-> FALSE, denoise |-> FALSE]

ProcessImageMsg(seq, id, bitmap, options) ==
  [type |-> "PROCESS_IMAGE", seq |-> seq,
   payload |-> Some([id |-> id, imageBitmap |-> bitmap, options |-> options])]
InitMsg == [type |-> "INIT", seq |-> 0, payload |-> None]

\* One entry of jobLog: the payload and the settings in force at dispatch.
Job(id, bitmap, options, params, batch) ==
  [id |-> id, imageBitmap |-> bitmap, options |-> options, params |-> params,
   batch |-> batch]

ExternalPost ==
  /\ posts < MaxPosts
  /\ posts' = posts + 1
  /\ \/ /\ inbox' = Append(inbox, InitMsg)
        /\ UNCHANGED jobLog
     \/ \E id \in PostedIds, kind \in BitmapKinds, o \in PostedOptions :
          LET bitmap == [kind |-> kind, pixels |-> ImageOf(id)] IN
          /\ inbox' = Append(inbox, ProcessImageMsg(Len(jobLog) + 1, id, bitmap, o))
          /\ jobLog' = Append(jobLog, Job(id, bitmap, o, DefaultOptions, 0))
  /\ UNCHANGED <<auxVars, storeVars, appVars, engine, offscreenCanvas, suspended, outbox,
                 envVars, batches, nextId, events, lastEvent, delivered,
                 lastRender>>

NoCall == [fn |-> "", arg |-> << >>, out |-> << >>]
NoEvent == [path |-> << >>, success |-> FALSE, stage |-> "", progress |-> <<0, 1>>]
IdleSp ==
  [pc |-> "idle", pending |-> << >>, idx |-> 0, completed |-> 0, failed |-> 0,
   lut |-> None, watermark |-> None, params |-> DefaultOptions, bitmap |-> None]

\* The store as created, an App not yet mounted in either mode, the worker
\* module loaded (engine = null, offscreenCanvas = null).
InitCommon ==
  /\ files = << >>
  /\ processing = FALSE
  /\ progress = <<0, 1>>
  /\ processedFiles = << >>
  /\ lut = None
  /\ watermark = None
  /\ processingOptions = DefaultOptions
  /\ sp = IdleSp
  /\ engine = None
  /\ offscreenCanvas = None
  /\ suspended = {}
  /\ outbox = << >>
  /\ ctx \in ContextKinds
  /\ faults = 0
  /\ jobLog = << >>
  /\ batches = 0
  /\ nextId = 0
  /\ posts = 0
  /\ events = 0
  /\ lastEvent = NoEvent
  /\ delivered = 0
  /\ lastRender = None
  /\ closed = {}
  /\ invoked = None
  /\ call = NoCall
  /\ inEffect = << >>
  /\ drifted = {}
  /\ storeProcessingOptions = DefaultOptions

InitWorker ==
  /\ InitCommon
  /\ isTauri = FALSE
  /\ inbox = << >>

NextWorker == ExternalPost \/ WorkerOnMessage \/ WorkerResume

SpecWorker == InitWorker /\ [][NextWorker]_vars

(***************************************************************************)
(* useStore: the zustand store's operations, as functions of the state.    *)
(***************************************************************************)
\* addFiles: one new item per picked file, with a fresh random id.
NewFileItem(id, f) ==
  [id |-> id, name |-> f.name, file |-> f.file, path |-> f.path, status |-> "pending"]

\* updateFileStatus(id, status, blob = null): idOpt is None for an undefined id.
updateFileStatusFilesStale(fs, idOpt, status) == fs
updateFileStatusFiles(fs, idOpt, status) ==
  [i \in DOMAIN fs |->
     IF Some(fs[i].id) = idOpt THEN [fs[i] EXCEPT !.status = status] ELSE fs[i]]
updateFileStatusBlobs(pf, idOpt, blobOpt) ==
  IF IsSome(blobOpt) THEN (Get(idOpt) :> Get(blobOpt)) @@ pf ELSE pf

(***************************************************************************)
(* App (browser mode): the user's handlers.                                *)
(***************************************************************************)
\* handleFileChange: the user picks one more file; it is corrupt or holds the
\* picture ImageOf(id).
HandleFileChange ==
  /\ ~isTauri
  /\ nextId < MaxFiles
  /\ \E corrupt \in BOOLEAN :
       LET id == nextId + 1
           picked == [name |-> NameOfPick(id),
                      file |-> Some([name |-> NameOfPick(id), corrupt |-> corrupt]),
                      path |-> None]
       IN /\ files' = Append(files, NewFileItem(id, picked))
          /\ nextId' = id
  /\ UNCHANGED <<auxVars, processing, progress, processedFiles, lut, watermark, appVars,
                 workerVars, envVars, jobLog, batches, posts, events, lastEvent,
                 delivered, lastRender>>

\* handleLutUpload
HandleLutUploadOf(cubes) ==
  /\ ~isTauri
  /\ \E cube \in cubes : lut' = Some(parseCubeLUT(cube))
  /\ UNCHANGED <<auxVars, files, processing, progress, processedFiles, watermark, appVars,
                 workerVars, envVars, bookVars>>

HandleLutUpload == HandleLutUploadOf(CubeFiles)

\* handleLutUpload with any file the picker lets through (accept=".cube").
HandleLutUploadAny == HandleLutUploadOf(CubeFiles \cup MalformedCubeFiles)

\* handleWatermarkText: the text typed is "abc" or is cleared.
HandleWatermarkText ==
  /\ ~isTauri
  /\ \E text \in {"", "abc"} :
       watermark' = IF text # ""
                    THEN Some([image |-> Some(createTextWatermark(text)),
                               text |-> text, opacity |-> Some(50)])
                    ELSE None
  /\ UNCHANGED <<auxVars, files, processing, progress, processedFiles, lut, appVars,
                 workerVars, envVars, bookVars>>

\* PRESETS
PRESETS ==
  << [name |-> "Default",
      options |-> [brightness |-> 0, contrast |-> 100, saturation |-> 100,
                   adaptive_threshold |-> FALSE, denoise |-> FALSE]],
     [name |-> "Vivid",
      options |-> [brightness |-> 5, contrast |-> 120, saturation |-> 130,
                   adaptive_threshold |-> FALSE, denoise |-> FALSE]],
     [name |-> "Soft",
      options |-> [brightness |-> 10, contrast |-> 90, saturation |-> 80,
                   adaptive_threshold |-> FALSE, denoise |-> TRUE]],
     [name |-> "B&W",
      options |-> [brightness |-> 0, contrast |-> 120, saturation |-> 0,
                   adaptive_threshold |-> FALSE, denoise |-> FALSE]],
     [name |-> "High Contrast",
      options |-> [brightness |-> 0, contrast |-> 150, saturation |-> 110,
                   adaptive_threshold |-> FALSE, denoise |-> FALSE]],
     [name |-> "Document",
      options |-> [brightness |-> 20, contrast |-> 130, saturation |-> 0,
                   adaptive_threshold |-> TRUE, denoise |-> TRUE]] >>

\* The preset the user clicks and the positions the brightness slider is left at.
BatchPresets == {"Default"}
BrightnessSteps == {0, 50}

\* A preset button: setProcessingOptions(preset.options).
SelectPresetOf(names) ==
  /\ \E i \in DOMAIN PRESETS :
       /\ PRESETS[i].name \in names
       /\ processingOptions' = PRESETS[i].options
  /\ UNCHANGED <<auxVars, storeVars, isTauri, sp, workerVars, envVars, bookVars>>

SelectPreset == SelectPresetOf(BatchPresets)

\* Any of the preset buttons.
SelectAnyPreset == SelectPresetOf({ PRESETS[i].name : i \in DOMAIN PRESETS })

\* The brightness slider: setProcessingOptions({...processingOptions, brightness}).
BrightnessSliderOf(steps) ==
  /\ \E b \in steps :
       processingOptions' = [processingOptions EXCEPT !.brightness = b]
  /\ UNCHANGED <<auxVars, storeVars, isTauri, sp, workerVars, envVars, bookVars>>

BrightnessSlider == BrightnessSliderOf(BrightnessSteps)

\* Positions a range input can take, values beyond its min and max attributes.
BeyondRange == {-150, 350}

\* Positions of the range inputs, in hundredths: their min and their max.
\* type="range" min="-1" max="1"
BrightnessRange == {-100, 100}
\* type="range" min="0" max="3"
ContrastRange == {0, 300}
\* type="range" min="0" max="2"
SaturationRange == {0, 200}

\* The brightness slider over its whole range.
BrightnessInput == BrightnessSliderOf(BrightnessRange)

\* The contrast slider: setProcessingOptions({...processingOptions, contrast}).
ContrastInput ==
  /\ \E c \in ContrastRange :
       processingOptions' = [processingOptions EXCEPT !.contrast = c]
  /\ UNCHANGED <<auxVars, storeVars, isTauri, sp, workerVars, envVars, bookVars>>

\* The saturation slider: setProcessingOptions({...processingOptions, saturation}).
SaturationInput ==
  /\ \E x \in SaturationRange :
       processingOptions' = [processingOptions EXCEPT !.saturation = x]
  /\ UNCHANGED <<auxVars, storeVars, isTauri, sp, workerVars, envVars, bookVars>>

(***************************************************************************)
(* App (browser mode): startProcessing, the else branch.                   *)
(***************************************************************************)
NotComplete(f) == f.status # "complete"

\* The top of the for loop for the k-th pending file, or the code after the
\* loop: [files, processing, sp].
LoopEnter(fs, spr, k) ==
  IF k <= Len(spr.pending)
  THEN [files      |-> updateFileStatusFiles(fs, Some(spr.pending[k].id), "processing"),
        processing |-> TRUE,
        sp         |-> [spr EXCEPT !.pc = "decode", !.idx = k, !.bitmap = None]]
  ELSE [files      |-> fs,
        processing |-> FALSE,
        sp         |-> [spr EXCEPT !.pc = "idle", !.idx = k, !.bitmap = None]]

\* The settings the store holds: what a render of App closes over.
Settings == [lut |-> lut, watermark |-> watermark, processingOptions |-> processingOptions]

\* The Process button: enabled when files.length > 0 and not processing.
StartProcessingBrowser ==
  /\ ~isTauri
  /\ Len(files) > 0 /\ ~processing
  /\ batches < MaxBatches
  /\ batches' = batches + 1
  /\ progress' = <<0, 1>>
  /\ LET pendingFiles == SelectSeq(files, NotComplete)
         started == [IdleSp EXCEPT !.pending = pendingFiles, !.lut = lut,
                                   !.watermark = watermark,
                                   !.params = processingOptions]
         r == LoopEnter(files, started, 1)
     IN /\ files' = r.files
        /\ processing' = r.processing
        /\ sp' = r.sp
  /\ inEffect' = Append(inEffect, Settings)
  /\ UNCHANGED <<closed, invoked, call, drifted, storeProcessingOptions, processedFiles, lut, watermark, isTauri,
                 processingOptions, workerVars, envVars, jobLog, nextId, posts, events,
                 lastEvent, delivered, lastRender>>

\* options built from the store's current lut and watermark.
DispatchOptionsLive(spr, wmBitmap) ==
  [lut |-> lut,
   watermark |-> IF IsSome(watermark)
                 THEN Some([image |-> wmBitmap,
                            opacity |-> Get(watermark).opacity,
                            rect |-> None])
                 ELSE None]

\* The message startProcessing posts for a decoded file.
DispatchOptions(spr, wmBitmap) ==
  [lut |-> spr.lut,
   watermark |-> IF IsSome(spr.watermark)
                 THEN Some([image |-> wmBitmap,
                            opacity |-> Get(spr.watermark).opacity,
                            rect |-> None])
                 ELSE None]

\* postMessage, completed++, setProgress, and on to the next file.
Dispatch(bitmap, wmBitmap) ==
  LET item    == sp.pending[sp.idx]
      options == DispatchOptions(sp, wmBitmap)
      counted == [sp EXCEPT !.completed = sp.completed + 1]
      r       == LoopEnter(files, counted, sp.idx + 1)
  IN /\ inbox' = Append(inbox, ProcessImageMsg(Len(jobLog) + 1, item.id, bitmap, options))
     /\ jobLog' = Append(jobLog, Job(item.id, bitmap, options, sp.params, batches))
     /\ drifted' = IF Settings # [lut |-> sp.lut, watermark |-> sp.watermark,
                                  processingOptions |-> sp.params]
                       /\ drifted = {}
                    THEN {Len(jobLog) + 1}
                    ELSE drifted
     /\ progress' = <<counted.completed * 100, Len(sp.pending)>>
     /\ files' = r.files
     /\ processing' = r.processing
     /\ sp' = r.sp

\* createImageBitmap(file): None when the promise rejects.
createImageBitmap(file, id) ==
  IF file.corrupt THEN None
  ELSE Some([kind |-> "ImageBitmap", pixels |-> ImageOf(id)])

\* decodeRaw(file) in a browser: the web fallback.
decodeRaw(file, id) == createImageBitmap(file, id)

\* isRaw(..) ? await decodeRaw(file) : await createImageBitmap(file)
DecodedBitmap(item) ==
  IF isRaw(item.name) THEN decodeRaw(Get(item.file), item.id)
  ELSE createImageBitmap(Get(item.file), item.id)

\* await decodeRaw(file) / createImageBitmap(file) settles.
SpDecodeSettles ==
  /\ sp.pc = "decode"
  /\ LET item == sp.pending[sp.idx] IN
     IF ~IsSome(DecodedBitmap(item))
     THEN \* catch: updateFileStatus(id, 'error'); continue
          LET failed == [sp EXCEPT !.failed = sp.failed + 1]
              r == LoopEnter(updateFileStatusFiles(files, Some(item.id), "error"),
                             failed, sp.idx + 1)
          IN /\ files' = r.files
             /\ processing' = r.processing
             /\ sp' = r.sp
             /\ UNCHANGED <<progress, inbox, jobLog, drifted>>
     ELSE IF IsSome(sp.watermark) /\ IsSome(Get(sp.watermark).image)
     THEN \* await createImageBitmap(watermark.image)
          /\ sp' = [sp EXCEPT !.pc = "watermark", !.bitmap = DecodedBitmap(item)]
          /\ UNCHANGED <<files, processing, progress, inbox, jobLog, drifted>>
     ELSE Dispatch(Get(DecodedBitmap(item)), None)
  /\ UNCHANGED <<closed, invoked, call, inEffect, storeProcessingOptions, processedFiles, lut, watermark, isTauri, processingOptions,
                 engine, offscreenCanvas, suspended, outbox, envVars, batches,
                 nextId, posts, events, lastEvent, delivered,
                 lastRender>>

\* await createImageBitmap(watermark.image) resolves.
SpWatermarkResolved ==
  /\ sp.pc = "watermark"
  /\ Dispatch(Get(sp.bitmap),
              Some(createImageBitmapOfCanvas(Get(Get(sp.watermark).image))))
  /\ UNCHANGED <<closed, invoked, call, inEffect, storeProcessingOptions, processedFiles, lut, watermark, isTauri, processingOptions,
                 engine, offscreenCanvas, suspended, outbox, envVars, batches,
                 nextId, posts, events, lastEvent, delivered,
                 lastRender>>

\* await createImageBitmap(watermark.image) rejects: no try encloses it, so the
\* promise startProcessing returned rejects and nothing after the await runs.
SpWatermarkRejected ==
  /\ sp.pc = "watermark"
  /\ faults < MaxFaults
  /\ faults' = faults + 1
  /\ sp' = [sp EXCEPT !.pc = "rejected"]
  /\ UNCHANGED <<auxVars, storeVars, isTauri, processingOptions, workerVars, ctx, bookVars>>

(***************************************************************************)
(* App (browser mode): workerRef.current.onmessage.                        *)
(***************************************************************************)
MainOnMessage ==
  /\ ~isTauri
  /\ delivered < Len(outbox)
  /\ delivered' = delivered + 1
  /\ LET m == outbox[delivered + 1] IN
     IF m.type = "PROCESS_COMPLETE"
     THEN /\ files' = updateFileStatusFiles(files, m.id, "complete")
          /\ processedFiles' = updateFileStatusBlobs(processedFiles, m.id, m.blob)
     ELSE IF m.type = "ERROR"
     THEN /\ files' = updateFileStatusFiles(files, m.id, "error")
          /\ processedFiles' = updateFileStatusBlobs(processedFiles, m.id, None)
     ELSE UNCHANGED <<files, processedFiles>>
  /\ UNCHANGED <<auxVars, processing, progress, lut, watermark, appVars, workerVars,
                 envVars, jobLog, batches, nextId, posts, events, lastEvent,
                 lastRender>>

\* The App mounted in a browser: the effect created the worker and posted INIT.
Init ==
  /\ InitCommon
  /\ isTauri = FALSE
  /\ inbox = <<InitMsg>>

Next ==
  \/ HandleFileChange
  \/ HandleLutUpload
  \/ HandleWatermarkText
  \/ SelectPreset
  \/ BrightnessSlider
  \/ StartProcessingBrowser
  \/ SpDecodeSettles
  \/ SpWatermarkResolved
  \/ SpWatermarkRejected
  \/ WorkerOnMessage
  \/ WorkerResume
  \/ MainOnMessage

Spec == Init /\ [][Next]_vars

\* A batch on a worker whose program links (a WebGL1-only context), with the
\* colour settings left as they are.
InitBatch ==
  /\ Init
  /\ ctx = "webgl"

NextBatch ==
  \/ HandleFileChange
  \/ HandleWatermarkText
  \/ StartProcessingBrowser
  \/ SpDecodeSettles
  \/ SpWatermarkResolved
  \/ SpWatermarkRejected
  \/ WorkerOnMessage
  \/ WorkerResume
  \/ MainOnMessage

\* The same batch with LUT uploads of well-formed and malformed files.
NextUpload ==
  \/ NextBatch
  \/ HandleLutUploadAny

SpecUpload == InitBatch /\ [][NextUpload]_vars

\* Every await of startProcessing settles, the worker's event loop takes each
\* queued message and resumes each settled handler, and the page's event loop
\* delivers each message the worker posted.
FairSpec ==
  /\ InitBatch /\ [][NextBatch]_vars
  /\ WF_vars(SpDecodeSettles)
  /\ WF_vars(SpWatermarkResolved)
  /\ WF_vars(WorkerOnMessage)
  /\ WF_vars(WorkerResume)
  /\ WF_vars(MainOnMessage)

(***************************************************************************)
(* App (native mode): the file dialog, removeFile, startProcessing (the    *)
(* if branch) and the 'process-progress' listener.                         *)
(***************************************************************************)
\* Paths the dialog returns and the backend reports, as their segments between
\* separators, each segment a sequence of characters.
NativePaths ==
  { << <<"C", ":">>, <<"i", "n">>, <<"a", ".", "p", "n", "g">> >>,
    << <<"D", ":">>, <<"a", ".", "p", "n", "g">> >> }

\* path.split(/[\\/]/).pop()
BaseName(path) == path[Len(path)]

\* handleTauriFileOpen: the dialog resolves with one selected path.
HandleTauriFileOpenOf(paths) ==
  /\ isTauri
  /\ nextId < MaxPicks
  /\ \E path \in paths :
       LET id == nextId + 1
           picked == [name |-> BaseName(path), file |-> None, path |-> Some(path)]
       IN /\ files' = Append(files, NewFileItem(id, picked))
          /\ nextId' = id
  /\ UNCHANGED <<auxVars, processing, progress, processedFiles, lut, watermark, appVars,
                 workerVars, envVars, jobLog, batches, posts, events, lastEvent,
                 delivered, lastRender>>

HandleTauriFileOpen == HandleTauriFileOpenOf(NativePaths)

\* The dialog resolves with the one path on drive D.
HandleTauriFileOpenOne ==
  HandleTauriFileOpenOf({ path \in NativePaths : Len(path) = 2 })

\* useStore.removeFile(id)
removeFile(fs, id) == SelectSeq(fs, LAMBDA f : f.id # id)

\* The remove button of a file card, in either mode.
RemoveFile ==
  /\ \E i \in DOMAIN files : files' = removeFile(files, files[i].id)
  /\ UNCHANGED <<auxVars, processing, progress, processedFiles, lut, watermark, appVars,
                 workerVars, envVars, bookVars>>

\* f.path || f.file?.name
PathKey(f) ==
  IF IsSome(f.path) THEN f.path
  ELSE IF IsSome(f.file) THEN Some(Get(f.file).name) ELSE None

\* What downloadDir() resolves with: a Windows and a POSIX directory.
DownloadDirs == { <<"C", ":", "\\", "d">>, <<"/", "d">> }

\* fileName.lastIndexOf('.'): the last index holding '.', or 0 (for -1).
lastIndexOfDot(str) ==
  IF \E i \in DOMAIN str : str[i] = "."
  THEN CHOOSE i \in DOMAIN str :
         /\ str[i] = "."
         /\ \A j \in i + 1 .. Len(str) : str[j] # "."
  ELSE 0

\* fileName.lastIndexOf('.') !== -1 ? fileName.substring(0, lastIndexOf('.')) : fileName
NameWithoutExt(fileName) ==
  IF lastIndexOfDot(fileName) # 0
  THEN SubSeq(fileName, 1, lastIndexOfDot(fileName) - 1)
  ELSE fileName

ProcessedPrefix == <<"p", "r", "o", "c", "e", "s", "s", "e", "d", "_">>
JpgSuffix == <<".", "j", "p", "g">>

\* An output path that keeps the input's own name, extension included.
OutputPathKeepName(outBase, fileName) ==
  outBase \o <<"\\">> \o ProcessedPrefix \o fileName

\* `${outBase}\\processed_${nameWithoutExt}.jpg`
OutputPath(outBase, fileName) ==
  outBase \o <<"\\">> \o ProcessedPrefix \o NameWithoutExt(fileName) \o JpgSuffix

\* The [inputPath, outputPath] pair of one file item.
FileToProcess(outBase, f) == <<Get(PathKey(f)), OutputPath(outBase, f.name)>>

\* startProcessing, native branch, up to await invoke('process_bulk', ..).
StartProcessingNative ==
  /\ isTauri
  /\ Len(files) > 0 /\ ~processing
  /\ batches < MaxBatches
  /\ batches' = batches + 1
  /\ progress' = <<0, 1>>
  /\ LET filesToProcess == SelectSeq(files, NotComplete) IN
       IF Len(filesToProcess) = 0
       THEN /\ processing' = FALSE
            /\ sp' = IdleSp
            /\ UNCHANGED invoked
       ELSE /\ processing' = TRUE
            /\ sp' = [IdleSp EXCEPT !.pc = "invoke", !.pending = filesToProcess,
                                    !.params = processingOptions]
            /\ \E outBase \in DownloadDirs :
                 invoked' = Some([outBase |-> outBase,
                                  files |-> [i \in DOMAIN filesToProcess |->
                                               FileToProcess(outBase, filesToProcess[i])],
                                  options |-> processingOptions])
  /\ UNCHANGED <<closed, call, histVars, storeProcessingOptions, files, processedFiles, lut, watermark, isTauri, processingOptions,
                 workerVars, envVars, jobLog, nextId, posts, events, lastEvent,
                 delivered, lastRender>>

\* invoke('process_bulk') settles, either way: finally setProcessing(false).
NativeInvokeSettles ==
  /\ sp.pc = "invoke"
  /\ processing' = FALSE
  /\ sp' = IdleSp
  /\ invoked' = None
  /\ UNCHANGED <<closed, call, histVars, storeProcessingOptions, files, progress, processedFiles, lut, watermark, isTauri,
                 processingOptions, workerVars, envVars, bookVars>>

\* stage === 'completed' || stage === 'failed'
AnyStage(stage) == TRUE
IsTerminalStage(stage) == stage \in {"completed", "failed"}

\* files.find(f => (f.path || f.file?.name) === path): its index, or 0.
FindByPath(fs, path) ==
  IF \E i \in DOMAIN fs : PathKey(fs[i]) = Some(path)
  THEN CHOOSE i \in DOMAIN fs :
         /\ PathKey(fs[i]) = Some(path)
         /\ \A j \in 1 .. i - 1 : PathKey(fs[j]) # Some(path)
  ELSE 0

\* The payloads the backend emits.
EventStages == {"decoding", "completed", "failed"}
EventProgress == {<<50, 1>>, <<100, 1>>}

\* The 'process-progress' listener, run for one event.
ProgressListener ==
  /\ isTauri
  /\ events < MaxEvents
  /\ events' = events + 1
  /\ \E path \in NativePaths, success \in BOOLEAN, stage \in EventStages,
        p \in EventProgress :
       LET found == FindByPath(files, path) IN
       /\ lastEvent' = [path |-> path, success |-> success, stage |-> stage,
                        progress |-> p]
       /\ files' = IF IsTerminalStage(stage) /\ found # 0
                   THEN updateFileStatusFiles(files, Some(files[found].id),
                                              IF success THEN "complete" ELSE "error")
                   ELSE files
       /\ progress' = p
  /\ UNCHANGED <<auxVars, processing, processedFiles, lut, watermark, appVars, workerVars,
                 envVars, jobLog, batches, nextId, posts, delivered, lastRender>>

\* The App mounted inside Tauri: the listener is registered, no worker exists.
InitNative ==
  /\ InitCommon
  /\ isTauri = TRUE
  /\ inbox = << >>
  /\ ctx = "none"

NextNative ==
  \/ HandleTauriFileOpen
  \/ RemoveFile
  \/ StartProcessingNative
  \/ NativeInvokeSettles
  \/ ProgressListener

SpecNative == InitNative /\ [][NextNative]_vars

\* A browser batch during which file cards are removed.
NextRemove ==
  \/ NextBatch
  \/ RemoveFile

SpecRemove == InitBatch /\ [][NextRemove]_vars

(***************************************************************************)
(* SettingsPanel: the component that reads and sets useStore's             *)
(* processingOptions.                                                      *)
(***************************************************************************)
\* useStore.setProcessingOptions: set({ processingOptions: options })
setProcessingOptions(options) == options

\* Positions of a range input with step="0.1", in hundredths.
SliderPositions(min, max) == { 10 * k : k \in min .. max }

\* A preset button: setProcessingOptions(preset.options)
PanelPreset ==
  /\ \E i \in DOMAIN PRESETS :
       storeProcessingOptions' = setProcessingOptions(PRESETS[i].options)
  /\ UNCHANGED <<storeVars, appVars, workerVars, envVars, bookVars, closed, invoked, call,
                 histVars>>

\* The brightness slider: setProcessingOptions({ brightness: parseFloat(value) })
PanelBrightness ==
  /\ \E v \in SliderPositions(-10, 10) :
       storeProcessingOptions' = setProcessingOptions([brightness |-> v])
  /\ UNCHANGED <<storeVars, appVars, workerVars, envVars, bookVars, closed, invoked, call,
                 histVars>>

\* The contrast slider: setProcessingOptions({ contrast: parseFloat(value) })
PanelContrast ==
  /\ \E v \in SliderPositions(0, 30) :
       storeProcessingOptions' = setProcessingOptions([contrast |-> v])
  /\ UNCHANGED <<storeVars, appVars, workerVars, envVars, bookVars, closed, invoked, call,
                 histVars>>

\* The saturation slider: setProcessingOptions({ saturation: parseFloat(value) })
PanelSaturation ==
  /\ \E v \in SliderPositions(0, 20) :
       storeProcessingOptions' = setProcessingOptions([saturation |-> v])
  /\ UNCHANGED <<storeVars, appVars, workerVars, envVars, bookVars, closed, invoked, call,
                 histVars>>

NextPanel == PanelPreset \/ PanelBrightness \/ PanelContrast \/ PanelSaturation

SpecPanel == Init /\ [][NextPanel]_vars

\* Native mode with the whole settings panel: presets, sliders, and batches
\* that submit the options.
NextSettings ==
  \/ SelectAnyPreset
  \/ BrightnessInput
  \/ ContrastInput
  \/ SaturationInput
  \/ HandleTauriFileOpenOne
  \/ StartProcessingNative
  \/ NativeInvokeSettles

SpecSettings == InitNative /\ [][NextSettings]_vars

(***************************************************************************)
(* WebGLEngine used directly: a caller creates an engine on a canvas and   *)
(* calls render on it, or the WebGL2 fragment program is run on its own.   *)
(***************************************************************************)
\* Calls of render and of the fragment program in one run.
MaxCalls == 1

\* A uniform white picture.
WhiteImage == [p \in Coords |-> <<ByteMax, ByteMax, ByteMax, ByteMax>>]
RenderImages == {ImageOf(1), WhiteImage}

\* Watermark images: the default (white) text watermark's bitmap, an opaque
\* black image, the bitmap of a black text watermark, and a value that is no
\* image source.
OpaqueBlack == [kind |-> "ImageBitmap", rgba |-> <<0, 0, 0, ByteMax>>]
HalfBlack   ==
  createImageBitmapOfCanvas(
    createTextWatermarkWith("abc", [color |-> CssBlack, opacity |-> 50]))
NotAnImage  == [kind |-> "Blob", rgba |-> <<0, 0, 0, 0>>]
WatermarkImages ==
  {createImageBitmapOfCanvas(createTextWatermark("abc")), OpaqueBlack, HalfBlack, NotAnImage}

\* A rectangle other than the default one: the top left quarter.
QuarterRect == <<0, 0, 500, 500>>

RenderWatermarks ==
  {None} \cup
  {Some([image |-> Some(img), opacity |-> o, rect |-> r]) :
     img \in WatermarkImages, o \in {None, Some(0), Some(50), Some(100)},
     r \in {None, Some(QuarterRect)}}
RenderOptions ==
  {[lut |-> l, watermark |-> w] :
     l \in {None, Some(parseCubeLUT(InvertCube))}, w \in RenderWatermarks}

\* The watermark of the options, if any, can be uploaded as a texture.
Uploadable(options) ==
  (IsSome(options.watermark) /\ IsSome(Get(options.watermark).image))
    => IsTexImageSource(Get(Get(options.watermark).image))

\* new WebGLEngine(canvas)
EngineNew ==
  /\ engine = None
  /\ IsSome(NewEngine(ctx))
  /\ engine' = NewEngine(ctx)
  /\ offscreenCanvas' = Some(Blank)
  /\ UNCHANGED <<storeVars, appVars, inbox, suspended, outbox, envVars, bookVars,
                 auxVars>>

\* engine.render(image, options)
RenderCall ==
  /\ IsSome(engine)
  /\ posts < MaxCalls
  /\ posts' = posts + 1
  /\ \E image \in RenderImages, options \in RenderOptions :
       LET r == render(Get(engine), image, options) IN
       /\ call' = [fn |-> "render",
                   arg |-> [engine |-> Get(engine), image |-> image, options |-> options],
                   out |-> r]
       /\ engine' = Some([Get(engine) EXCEPT !.textures = @ + r.textures])
       /\ offscreenCanvas' = Some(r.canvas)
  /\ UNCHANGED <<storeVars, appVars, inbox, suspended, outbox, envVars, jobLog,
                 batches, nextId, events, lastEvent, delivered, lastRender,
                 closed, invoked, histVars, storeProcessingOptions>>

\* The WebGL2 fragment program run for one fragment, with the uniforms render
\* sets for the options.
ShaderCall ==
  /\ posts < MaxCalls
  /\ posts' = posts + 1
  /\ \E image \in RenderImages, options \in RenderOptions, p \in Coords :
       /\ Uploadable(options)
       /\ LET u == RenderUniforms([isWebGL2 |-> TRUE], image, options) IN
          call' = [fn |-> "shader", arg |-> [u |-> u, p |-> p, options |-> options],
                   out |-> FragmentShaderWebGL2(u, p)]
  /\ UNCHANGED <<storeVars, appVars, workerVars, envVars, jobLog, batches, nextId,
                 events, lastEvent, delivered, lastRender, closed, invoked,
                 histVars, storeProcessingOptions>>

InitEngine ==
  /\ InitCommon
  /\ isTauri = FALSE
  /\ inbox = << >>

NextEngine == EngineNew \/ RenderCall \/ ShaderCall

SpecEngine == InitEngine /\ [][NextEngine]_vars

(***************************************************************************)
(* The output path of the native branch and sanitizeFilename, applied to   *)
(* file names on their own.                                                *)
(***************************************************************************)
\* Longest file name tried.
MaxNameLen == 3

\* Characters of the file names tried: a letter, the period, a character that
\* is reserved on Windows and legal elsewhere, and the space.
NameChars == {"a", ".", ":", " "}

\* The non-empty names of up to MaxNameLen characters.
Names == UNION { [1 .. n -> NameChars] : n \in 1 .. MaxNameLen }

\* sanitizeFilename: the characters of /[<>:"/\\|?*\x00-\x1F]/, the control
\* characters among them being those a string of the model can hold.
ControlChars == {"\t", "\n", "\r", "\f"}
UnsafeChars == {"<", ">", ":", "\"", "/", "\\", "|", "?", "*"} \cup ControlChars
\* '.' of a regular expression matches no line terminator
LineTerminators == {"\n", "\r"}
\* /^[.\s]+|[.\s]+$/ after the control characters are replaced
TrimChars == {".", " "}
Untitled == <<"u", "n", "t", "i", "t", "l", "e", "d">>

\* filename.replace(/^.*[\\\/]/, '')
StripDirectory(filename) ==
  LET ends == { i \in DOMAIN filename :
                  /\ filename[i] \in {"/", "\\"}
                  /\ \A j \in 1 .. i - 1 : filename[j] \notin LineTerminators }
  IN IF ends = {} THEN filename
     ELSE SubSeq(filename, (CHOOSE i \in ends : \A j \in ends : j <= i) + 1,
                 Len(filename))

\* name.replace(/[<>:"/\\|?*\x00-\x1F]/g, '_')
ReplaceUnsafe(name) ==
  [i \in DOMAIN name |-> IF name[i] \in UnsafeChars THEN "_" ELSE name[i]]

\* The trim step left out.
TrimNothing(str) == str

\* sanitized.replace(/^[.\s]+|[.\s]+$/g, '')
TrimDotsAndSpaces(str) ==
  LET kept == { i \in DOMAIN str : str[i] \notin TrimChars }
  IN IF kept = {} THEN << >>
     ELSE SubSeq(str, CHOOSE i \in kept : \A j \in kept : i <= j,
                 CHOOSE i \in kept : \A j \in kept : j <= i)

sanitizeFilename(filename) ==
  IF filename = << >> THEN Untitled
  ELSE LET sanitized == TrimDotsAndSpaces(ReplaceUnsafe(StripDirectory(filename)))
       IN IF Len(sanitized) = 0 THEN Untitled ELSE sanitized

\* The map callback of the native branch applied to one name in one download directory.
OutputPathCall ==
  /\ posts < MaxCalls
  /\ posts' = posts + 1
  /\ \E outBase \in DownloadDirs, fileName \in Names :
       call' = [fn |-> "outputPath",
                arg |-> [outBase |-> outBase, fileName |-> fileName],
                out |-> OutputPath(outBase, fileName)]
  /\ UNCHANGED <<storeVars, appVars, workerVars, envVars, jobLog, batches, nextId,
                 events, lastEvent, delivered, lastRender, closed, invoked, histVars, storeProcessingOptions>>

\* Characters of the strings sanitizeFilename is tried on: those of the names,
\* a separator and a line terminator.
SanitizeChars == NameChars \cup {"/", "\n"}

\* The strings of up to MaxNameLen characters, the empty one included.
SanitizeInputs == UNION { [1 .. n -> SanitizeChars] : n \in 0 .. MaxNameLen }

\* sanitizeFilename applied to one string.
SanitizeCall ==
  /\ posts < MaxCalls
  /\ posts' = posts + 1
  /\ \E filename \in SanitizeInputs :
       call' = [fn |-> "sanitizeFilename",
                arg |-> [filename |-> filename],
                out |-> sanitizeFilename(filename)]
  /\ UNCHANGED <<storeVars, appVars, workerVars, envVars, jobLog, batches, nextId,
                 events, lastEvent, delivered, lastRender, closed, invoked, histVars, storeProcessingOptions>>

NextPath == OutputPathCall \/ SanitizeCall

SpecPath == InitNative /\ [][NextPath]_vars

(***************************************************************************)
(* Properties of the worker.                                               *)
(***************************************************************************)
OutboxIndex == 1 .. Len(outbox)
IsTerminal(m) == m.type \in {"PROCESS_COMPLETE", "ERROR"}
\* The options ask for a LUT or a watermark.
Requested(options) == IsSome(options.lut) \/ IsSome(options.watermark)

\* C1: whatever the interleaving of PROCESS_IMAGE handlers on the shared
\* canvas, the blob carried by PROCESS_COMPLETE for a job is the encoding of
\* the rendering of that job's own image with that job's own options, and the
\* message carries that job's id.
C1_BlobIsOwnRendering ==
  \A i \in OutboxIndex :
    outbox[i].type = "PROCESS_COMPLETE" =>
      LET job == jobLog[outbox[i].seq] IN
        /\ outbox[i].id = Some(job.id)
        /\ outbox[i].blob =
             Some(Encode(render(Get(engine), job.imageBitmap.pixels, job.options).canvas))

\* C1 witness: two jobs with different images completed out of order: the
\* later one rendered into the canvas while the earlier one was suspended.
C1_Witness ==
  \E i, j \in OutboxIndex :
    /\ i < j
    /\ outbox[i].type = "PROCESS_COMPLETE" /\ outbox[j].type = "PROCESS_COMPLETE"
    /\ outbox[i].seq > outbox[j].seq
    /\ jobLog[outbox[i].seq].id # jobLog[outbox[j].seq].id

TerminalCount(seq) ==
  Cardinality({i \in OutboxIndex : outbox[i].seq = seq /\ IsTerminal(outbox[i])})
HandlerRunning(seq) ==
  \/ \E i \in 1 .. Len(inbox) : inbox[i].seq = seq
  \/ \E h \in suspended : h.seq = seq

C9_NeutralRenderIsIdentity ==
  (IsSome(lastRender) /\ ~Requested(jobLog[Get(lastRender)].options))
    => Get(offscreenCanvas) = jobLog[Get(lastRender)].imageBitmap.pixels

\* C10: a job whose options ask for a LUT or a watermark is never reported
\* with PROCESS_COMPLETE by an engine running the fallback program.
C10_FallbackIsObservable ==
  \A i \in OutboxIndex :
    (outbox[i].type = "PROCESS_COMPLETE" /\ Requested(jobLog[outbox[i].seq].options))
      => Get(engine).isWebGL2

(***************************************************************************)
(* The Adjustment Kernel of the native engine (its code is not part of the *)
(* sources at hand): brightness, contrast, saturation, then the LUT, then  *)
(* the watermark composite.                                                *)
(***************************************************************************)
\* out = clamp(in + brightness, 0, 1)
Brightness(c, b) == Clamp(c + (b * ByteMax) \div 100, 0, ByteMax)
\* out = clamp((in - 0.5) * contrast + 0.5, 0, 1)
Contrast(c, k) == Clamp(((2 * c - ByteMax) * k + 100 * ByteMax) \div 200, 0, ByteMax)
\* Approximate luma (Rec. 601 weights).
Luma(rgb) == (299 * rgb[1] + 587 * rgb[2] + 114 * rgb[3]) \div 1000
\* out = clamp(L + (in - L) * saturation, 0, 1)
Saturation(c, L, s) == Clamp(L + ((c - L) * s) \div 100, 0, ByteMax)

AdjustPixel(px, params) ==
  LET bc == [ch \in 1 .. 3 |->
               Contrast(Brightness(px[ch], params.brightness), params.contrast)]
      L  == Luma(bc)
  IN << Saturation(bc[1], L, params.saturation),
        Saturation(bc[2], L, params.saturation),
        Saturation(bc[3], L, params.saturation),
        px[4] >>

AdjustmentKernel(image, params, options) ==
  LET adjusted == [p \in Coords |-> AdjustPixel(image[p], params)]
      u == RenderUniforms([isWebGL2 |-> TRUE], adjusted, options)
  IN [p \in Coords |-> FragmentShaderWebGL2(u, p)]

(***************************************************************************)
(* Properties of a browser batch.                                          *)
(***************************************************************************)
BatchIndex == DOMAIN sp.pending
BatchIds == {sp.pending[i].id : i \in BatchIndex}
FileOf(id) == files[CHOOSE i \in DOMAIN files : files[i].id = id]
StatusOf(id) == FileOf(id).status
\* The jobs startProcessing posted in the current batch.
BatchJobs == {seq \in 1 .. Len(jobLog) : jobLog[seq].batch = batches}
Dispatched(id) == \E seq \in BatchJobs : jobLog[seq].id = id
StartProcessingRunning == sp.pc \in {"decode", "watermark"}

\* C2: once startProcessing has stopped running, every file of the batch other
\* than one whose step failed has been dispatched to the worker or has status
\* 'error' or 'complete': no failure of one file keeps the other files from
\* being processed.
C2_FailureDoesNotAbortBatch ==
  (batches > 0 /\ ~StartProcessingRunning) =>
    \A i \in BatchIndex :
      \/ sp.pc = "rejected" /\ i = sp.idx
      \/ Dispatched(sp.pending[i].id)
      \/ StatusOf(sp.pending[i].id) \in {"complete", "error"}

\* startProcessing has ended, every file of the batch that decodes has status
\* 'complete' and every file that fails to decode has status 'error'.
BatchSettled ==
  /\ batches > 0
  /\ sp.pc = "idle"
  /\ \A i \in BatchIndex :
       StatusOf(sp.pending[i].id) =
         IF IsSome(DecodedBitmap(sp.pending[i])) THEN "complete" ELSE "error"

\* C4: in a batch on a worker that succeeds (a context whose program links,
\* no injected failure), eventually startProcessing has ended, every file of
\* the batch that decodes has status 'complete' and every file that fails to
\* decode has status 'error', so none is 'pending' or 'processing'.
C4_BatchEventuallySettles ==
  (batches > 0 /\ ctx = "webgl") ~> (BatchSettled \/ faults > 0)
\* K = 3, F = 1: two files complete and one in error.
C4_Witness ==
  /\ BatchSettled /\ ctx = "webgl" /\ faults = 0
  /\ Len(sp.pending) = 3
  /\ Cardinality({id \in BatchIds : StatusOf(id) = "complete"}) = 2
  /\ Cardinality({id \in BatchIds : StatusOf(id) = "error"}) = 1

TerminalInBatch ==
  Cardinality({id \in BatchIds : StatusOf(id) \in {"complete", "error"}})

\* C5: during a batch the stored progress equals
\* 100 x (files of the batch with a terminal status) / (files in the batch).
C5_ProgressCountsTerminalJobs ==
  (batches > 0 /\ Len(sp.pending) > 0) =>
    progress[1] * Len(sp.pending) = 100 * TerminalInBatch * progress[2]

\* The jobs dispatched to the worker that have no terminal message yet.
InFlight == {seq \in BatchJobs : TerminalCount(seq) = 0}

\* C7: the jobs dispatched to the worker that have no terminal message yet
\* stay below the size of the batch (for a batch of more than one file), as
\* any limit that does not depend on the batch size requires.
C7_InFlightBelowBatchSize ==
  Len(sp.pending) > 1 => Cardinality(InFlight) < Len(sp.pending)

\* C8: the blob of every completed job is the encoding of the Adjustment Kernel
\* applied to the job's image with the settings in force when it was
\* dispatched: brightness, contrast, saturation, LUT, watermark, in this order.
C8_OutputIsAdjustmentKernel ==
  \A i \in OutboxIndex :
    outbox[i].type = "PROCESS_COMPLETE" =>
      LET job == jobLog[outbox[i].seq] IN
        outbox[i].blob =
          Some(Encode(AdjustmentKernel(job.imageBitmap.pixels, job.params, job.options)))

(***************************************************************************)
(* Properties of the native listener.                                      *)
(***************************************************************************)
EventResult(e) == IF e.success THEN "complete" ELSE "error"

\* What one run of the listener may change, e being the event it ran for.
C6_ListenerStep ==
  events' # events =>
    LET e == lastEvent' IN
      /\ Len(files') = Len(files)
      /\ \A i \in DOMAIN files :
           /\ files'[i].id = files[i].id
           /\ files'[i].status # files[i].status =>
                /\ e.stage \in {"completed", "failed"}
                /\ PathKey(files[i]) = Some(e.path)
                /\ files'[i].status = EventResult(e)
      /\ (e.stage \in {"completed", "failed"} /\ FindByPath(files, e.path) # 0) =>
           files'[FindByPath(files, e.path)].status = EventResult(e)

\* C6: a step of the 'process-progress' listener keeps the list of files; for an
\* event whose stage is neither 'completed' nor 'failed' no status changes; for
\* a 'completed' or 'failed' event a status changes only on a file whose path
\* (or file name) equals the event's path, to 'complete' when success is true
\* and to 'error' otherwise, and the first such file has that status afterwards.
C6_ListenerFrame == [][C6_ListenerStep]_vars

\* A 'completed' event has set its file to 'complete' and left a file of another
\* path 'pending'.
C6_Witness ==
  /\ events > 0
  /\ lastEvent.stage = "completed" /\ lastEvent.success
  /\ \E i, j \in DOMAIN files :
       /\ PathKey(files[i]) = Some(lastEvent.path) /\ files[i].status = "complete"
       /\ PathKey(files[j]) # Some(lastEvent.path) /\ files[j].status = "pending"

C12_NoContextIsNotAFailure ==
  ctx = "none" =>
    \A i \in DOMAIN files :
      files[i].status = "error" => ~IsSome(DecodedBitmap(files[i]))

OpenBitmaps(seq) ==
  LET job == jobLog[seq] IN
    (IF seq \in closed THEN {} ELSE {"imageBitmap"})
      \cup (IF IsSome(job.options.watermark) /\ IsSome(Get(job.options.watermark).image)
            THEN {"watermarkBitmap"} ELSE {})

\* C14: a job that has a terminal message (PROCESS_COMPLETE or ERROR) has no
\* open bitmap left: its decoded image and its watermark bitmap were closed.
C14_TerminalJobHoldsNoBitmap ==
  \A seq \in 1 .. Len(jobLog) :
    TerminalCount(seq) > 0 => OpenBitmaps(seq) = {}

\* The normalized coordinate p lies in the rectangle {x, y, w, h}.
InsideRect(p, rect) ==
  /\ rect[1] <= p[1] /\ p[1] <= rect[1] + rect[3]
  /\ rect[2] <= p[2] /\ p[2] <= rect[2] + rect[4]

\* C15: in the watermark composite of the fragment program, a fragment whose
\* coordinate lies outside the watermark rectangle gets exactly the colour it
\* has without the composite step (the source colour after the optional LUT).
C15_OutsideRectUnchanged ==
  (/\ call.fn = "shader"
   /\ call.arg.u.useWatermark
   /\ ~InsideRect(call.arg.p, call.arg.u.rect))
    => call.out = FragmentShaderWebGL2([call.arg.u EXCEPT !.useWatermark = FALSE],
                                       call.arg.p)

\* An opaque black watermark at full opacity over a white picture, and a
\* fragment outside its rectangle, still white.
C15_Witness ==
  /\ call.fn = "shader"
  /\ call.arg.u.useWatermark
  /\ call.arg.u.watermark = OpaqueBlack
  /\ call.arg.u.opacity = 100
  /\ call.arg.u.image = WhiteImage
  /\ ~call.arg.u.useLut
  /\ ~InsideRect(call.arg.p, call.arg.u.rect)
  /\ call.out = WhiteImage[call.arg.p]

\* The 50% blend of two channel values, rounded to the 8-bit output.
HalfBlend(x, y) == (x + y + 1) \div 2

\* C16: with a watermark at opacity 0.5 on the default rectangle over a uniform
\* white picture, a fragment inside the rectangle that the watermark covers is
\* the 50% blend of the source colour and the watermark colour.
C16_HalfOpacityIsHalfBlend ==
  (/\ call.fn = "shader"
   /\ call.arg.u.image = WhiteImage
   /\ ~call.arg.u.useLut
   /\ call.arg.u.useWatermark
   /\ call.arg.u.rect = DefaultRect
   /\ call.arg.u.opacity = 50
   /\ InsideRect(call.arg.p, DefaultRect)
   /\ call.arg.u.watermark.rgba[4] > 0)
    => \A ch \in 1 .. 3 :
         call.out[ch] = HalfBlend(WhiteImage[call.arg.p][ch], call.arg.u.watermark.rgba[ch])

\* LookupTable: cube edge length N >= 1 and N^3 triples.
IsLookupTable(t) ==
  /\ t.size >= 1
  /\ Len(t.data) = 3 * t.size * t.size * t.size

\* C17: every lookup table that is stored with setLut, and every one passed to
\* the engine with a job, has size N >= 1 and 3*N^3 data values.
C17_InstalledLutIsWellFormed ==
  /\ IsSome(lut) => IsLookupTable(Get(lut))
  /\ \A i \in 1 .. Len(jobLog) :
       IsSome(jobLog[i].options.lut) => IsLookupTable(Get(jobLog[i].options.lut))

\* The options a job gets from the settings s.
OptionsOf(s) ==
  [lut |-> s.lut,
   watermark |->
     IF IsSome(s.watermark)
     THEN Some([image |-> IF IsSome(Get(s.watermark).image)
                          THEN Some(createImageBitmapOfCanvas(Get(Get(s.watermark).image)))
                          ELSE None,
                opacity |-> Get(s.watermark).opacity,
                rect |-> None])
     ELSE None]

\* C18: every job of a batch carries the LUT and watermark, and is recorded with
\* the adjustment options, that the store held when startProcessing was invoked
\* for that batch, whatever was changed while the batch ran.
C18_BatchUsesSettingsAtStart ==
  \A i \in 1 .. Len(jobLog) :
    jobLog[i].batch >= 1 =>
      /\ jobLog[i].options = OptionsOf(inEffect[jobLog[i].batch])
      /\ jobLog[i].params = inEffect[jobLog[i].batch].processingOptions

\* A job was posted after the LUT, the watermark or the adjustment options were
\* changed in the store during its batch.
C18_Witness ==
  \E i \in drifted :
    /\ jobLog[i].batch >= 1
    /\ jobLog[i].options = OptionsOf(inEffect[jobLog[i].batch])

\* C19: every output path built by the native branch ends in '.jpg', whatever
\* the file's name or extension.
C19_OutputPathEndsInJpg ==
  call.fn = "outputPath" => endsWith(call.out, JpgSuffix)

\* An output path was built for a name without an extension, or for a name
\* with several dots, and it ends in '.jpg'.
C19_Witness ==
  /\ call.fn = "outputPath"
  /\ \/ lastIndexOfDot(call.arg.fileName) = 0
     \/ Cardinality({ i \in DOMAIN call.arg.fileName : call.arg.fileName[i] = "." }) >= 2
  /\ endsWith(call.out, JpgSuffix)

\* The separator of the platform a download directory belongs to.
PlatformSeparator(outBase) == IF Head(outBase) = "/" THEN "/" ELSE "\\"

\* The part of an output path after its directory and one separator.
NamePart(outBase, path) == SubSeq(path, Len(outBase) + 2, Len(path))

\* C20: every output path joins the download directory and the name with the
\* platform's separator, not a hardcoded '\', and its name part is sanitized:
\* sanitizeFilename leaves it as it is.
C20_PathIsJoinedFromSanitizedName ==
  call.fn = "outputPath" =>
    /\ call.out[Len(call.arg.outBase) + 1] = PlatformSeparator(call.arg.outBase)
    /\ sanitizeFilename(NamePart(call.arg.outBase, call.out))
         = NamePart(call.arg.outBase, call.out)

\* Whitespace and the period, which a sanitized name must not start or end with.
PeriodOrWhitespace == {".", " ", "\t", "\n", "\r", "\f"}

\* The characters a sanitized name must not hold.
ForbiddenChars ==
  {"<", ">", ":", "\"", "/", "\\", "|", "?", "*", "\t", "\n", "\r", "\f"}

\* C21: for every input string sanitizeFilename returns a non-empty string with
\* no reserved or control character, which neither starts nor ends with a
\* period or whitespace, and which is 'untitled' when the input is empty or
\* consists of periods and spaces only.
C21_SanitizedNameIsSafe ==
  call.fn = "sanitizeFilename" =>
    /\ Len(call.out) >= 1
    /\ \A i \in DOMAIN call.out : call.out[i] \notin ForbiddenChars
    /\ call.out[1] \notin PeriodOrWhitespace
    /\ call.out[Len(call.out)] \notin PeriodOrWhitespace
    /\ (\A i \in DOMAIN call.arg.filename : call.arg.filename[i] \in {".", " "})
         => call.out = Untitled

\* sanitizeFilename was applied to a string that starts with a period and holds
\* a reserved character, and returned something other than 'untitled'.
C21_Witness ==
  /\ call.fn = "sanitizeFilename"
  /\ Len(call.arg.filename) >= 2
  /\ call.arg.filename[1] = "."
  /\ \E i \in DOMAIN call.arg.filename : call.arg.filename[i] \in ForbiddenChars
  /\ call.out # Untitled

\* AdjustmentParams: brightness in [-1,1], contrast in [0,3], saturation in
\* [0,2] (hundredths), and two booleans.
IsAdjustmentParams(o) ==
  /\ DOMAIN o = {"brightness", "contrast", "saturation", "adaptive_threshold", "denoise"}
  /\ o.brightness \in -100 .. 100
  /\ o.contrast \in 0 .. 300
  /\ o.saturation \in 0 .. 200
  /\ o.adaptive_threshold \in BOOLEAN
  /\ o.denoise \in BOOLEAN

C23_ProcessedKeysAreFiles ==
  \A id \in DOMAIN processedFiles : \E i \in DOMAIN files : files[i].id = id

\* C24: in browser mode, whenever the processing flag is false no file has
\* status 'processing' and no dispatched job is without its worker result.
C24_IdleMeansNothingInFlight ==
  (~isTauri /\ ~processing) =>
    /\ \A i \in DOMAIN files : files[i].status # "processing"
    /\ InFlight = {}

\* C25: every invocation of startProcessing eventually sets the processing flag
\* back to false.
C25_ProcessingEventuallyFalse == processing ~> ~processing

\* A file that is 'complete' and still listed is 'complete' after the step.
CompleteStays ==
  \A i \in DOMAIN files :
    files[i].status = "complete" =>
      \A j \in DOMAIN files' :
        files'[j].id = files[i].id => files'[j].status = "complete"

\* C26: once a file's status has become 'complete' no later progress event or
\* worker message changes it.
C26_CompleteIsFinal == [][CompleteStays]_vars

\* The listed files of the batch in flight that have the path and no terminal
\* status yet.
Waiting(path) ==
  { i \in DOMAIN files :
      /\ PathKey(files[i]) = Some(path)
      /\ files[i].status \notin {"complete", "error"}
      /\ \E k \in DOMAIN sp.pending : sp.pending[k].id = files[i].id }

\* A terminal event that arrives while a batch is in flight gives its outcome
\* to one of the batch's files of that path that had no outcome yet.
TerminalEventSettlesOne ==
  (/\ events' # events
   /\ sp.pc = "invoke"
   /\ IsTerminalStage(lastEvent'.stage)
   /\ Waiting(lastEvent'.path) # {})
    => \E i \in Waiting(lastEvent'.path) :
         /\ i \in DOMAIN files'
         /\ files'[i].status = EventResult(lastEvent')

\* C27: in native mode, one terminal event per submitted job leaves every
\* submitted file with its own job's outcome, also when two listed files have
\* the same path: each terminal event settles a file that was still waiting.
C27_EachEventSettlesItsFile == [][TerminalEventSettlesOne]_vars

\* C28: within one native batch two distinct input files are never given the
\* same output path.
C28_OutputPathsAreDistinct ==
  IsSome(invoked) =>
    \A i, j \in DOMAIN Get(invoked).files :
      Get(invoked).files[i][1] # Get(invoked).files[j][1]
        => Get(invoked).files[i][2] # Get(invoked).files[j][2]

\* C29: after any sequence of SettingsPanel actions the store's
\* processingOptions holds all five fields.
C29_PanelKeepsAllFields ==
  DOMAIN storeProcessingOptions
    = {"brightness", "contrast", "saturation", "adaptive_threshold", "denoise"}

\* C30: the opacity render binds for a watermark is the opacity given in
\* options.watermark.opacity, 0 included, and a watermark of opacity 0 leaves
\* the fragment as it is without the composite; the default 0.5 is bound only
\* when no opacity is given.  Likewise the given rect is bound as is, and the
\* default rect only when none is given.
C30_OpacityAndRectAsConfigured ==
  (/\ call.fn = "shader"
   /\ IsSome(call.arg.options.watermark))
    => LET wm == Get(call.arg.options.watermark)
           u  == call.arg.u
       IN /\ u.opacity = (IF IsSome(wm.opacity) THEN Get(wm.opacity) ELSE 50)
          /\ u.rect = (IF IsSome(wm.rect) THEN Get(wm.rect) ELSE DefaultRect)
          /\ wm.opacity = Some(0)
               => call.out = FragmentShaderWebGL2([u EXCEPT !.useWatermark = FALSE],
                                                  call.arg.p)

====
